---- MODULE Spec2Model ----
(***************************************************************************)
(* Model of the two SDF sonar-file readers of the repository:              *)
(*   src/sonar-reader02.py  the "strict" decoder (header validation,       *)
(*                          bitmask channels, SDFX extension records)      *)
(*   src/sonar-reader12.py  the "lenient" decoder (20-field header, only   *)
(*                          page version 3502, two fixed channels)         *)
(* The file is a sequence of bytes (0..255) and `pos` is the cursor of the *)
(* open file (file.tell()).  An unpacked "<I" value is kept as its four    *)
(* little-endian bytes (a "word"), which is exact for every u32; Val gives *)
(* its number where the code does arithmetic on it.                        *)
(***************************************************************************)
EXTENDS Integers, Sequences, FiniteSets, TLC

VARIABLES mode, stream, pos, pc, pings, cur, bytes_read, err

vars == <<mode, stream, pos, pc, pings, cur, bytes_read, err>>

----------------------------------------------------------------------------
(* Bounds of the model *)

\* a stream holds at most MaxPings segments of the catalogue
MaxPings == 2
\* a stream is cut short by 0..MaxCut bytes at its end
MaxCut == 3
\* sample counts written into channel arrays are 0..MaxSamples
MaxSamples == 2

----------------------------------------------------------------------------
(* Bytes and words *)

Min(a, b) == IF a < b THEN a ELSE b

Pow2(n) == 2 ^ n

\* struct.pack("<I", n) for 0 <= n < 2^31
LE4(n) == << n % 256, (n \div 256) % 256, (n \div 65536) % 256, (n \div 16777216) % 256 >>

\* struct.pack("<H", n)
LE2(n) == << n % 256, (n \div 256) % 256 >>

\* struct.unpack("<I", w)[0], as a number
Val(w) == w[1] + 256 * w[2] + 65536 * w[3] + 16777216 * w[4]

\* struct.unpack("<H", b)[0]
U16(b) == b[1] + 256 * b[2]

\* struct.unpack("<i", b)[0]: two's complement
I32(b) == b[1] + 256 * b[2] + 65536 * b[3] + 16777216 * (IF b[4] >= 128 THEN b[4] - 256 ELSE b[4])

\* value & (1 << i) != 0 on an unpacked u32
Bit(w, i) == (w[(i \div 8) + 1] \div Pow2(i % 8)) % 2 = 1

Zeros(n) == [i \in 1..n |-> 0]

\* the ping marker 0xFFFFFFFF, the extension end marker 0xEEEEEEEE, record id 1
PING_MARKER == <<255, 255, 255, 255>>
END_MARKER == <<238, 238, 238, 238>>
SHIP_CONFIG == <<1, 0, 0, 0>>

\* class PageVersion(IntEnum)
PageVersion == {3000, 3001, 3501, 3502, 5000, 5001, 5002, 5004}

\* mutant: a lower bound in place of the membership test
ValidPageVersion_LowerBoundOnly(w) == Val(w) >= 3000

\* header["pageVersion"] in PageVersion.__members__.values()
ValidPageVersion(w) == w \in {LE4(v) : v \in PageVersion}

----------------------------------------------------------------------------
(* file.read *)

\* file.read(n), n >= 0, at cursor p: the bytes returned (fewer at the end)
Read(p, n) == SubSeq(stream, p + 1, Min(p + n, Len(stream)))

\* the cursor after file.read(n) at p
After(p, n) == Min(p + n, Len(stream))

----------------------------------------------------------------------------
(* Header fields *)

F(n, f, s) == [name |-> n, format |-> f, size |-> s]

\* strict decoder: SonarDataReader.HEADER_FIELDS
HEADER_FIELDS ==
  << F("numberBytes", "<I", 4), F("pageVersion", "<I", 4), F("configuration", "<I", 4),
     F("pingNumber", "<I", 4), F("numSamples", "<I", 4), F("beamsToDisplay", "<I", 4),
     F("errorFlags", "<I", 4), F("range", "<I", 4), F("speedFish", "<I", 4),
     F("speedSound", "<I", 4), F("resMode", "<I", 4), F("txWaveform", "<I", 4),
     F("respDiv", "<I", 4), F("respFreq", "<I", 4), F("manualSpeedSwitch", "<I", 4),
     F("despeckleSwitch", "<I", 4), F("speedFilterSwitch", "<I", 4), F("year", "<I", 4),
     F("month", "<I", 4), F("day", "<I", 4), F("hour", "<I", 4), F("minute", "<I", 4),
     F("second", "<I", 4), F("hSecond", "<I", 4), F("fixTimeHour", "<I", 4),
     F("fixTimeMinute", "<I", 4), F("fixTimeSecond", "<f", 4), F("heading", "<f", 4),
     F("pitch", "<f", 4), F("roll", "<f", 4), F("depth", "<f", 4), F("altitude", "<f", 4),
     F("temperature", "<f", 4), F("speed", "<f", 4), F("shipHeading", "<f", 4),
     F("magneticVariation", "<f", 4), F("shipLat", "<d", 8), F("shipLon", "<d", 8),
     F("fishLat", "<d", 8), F("fishLon", "<d", 8) >>

\* lenient decoder: SonarDataReader.HEADER_FIELDS
LENIENT_HEADER_FIELDS ==
  << F("numberBytes", "<I", 4), F("pageVersion", "<I", 4), F("configuration", "<I", 4),
     F("pingNumber", "<I", 4), F("numSamples", "<I", 4), F("errorFlags", "<I", 4),
     F("range", "<I", 4), F("speedFish", "<I", 4), F("speedSound", "<I", 4),
     F("txWaveform", "<I", 4), F("respDiv", "<I", 4), F("respFreq", "<I", 4),
     F("manualSpeedSwitch", "<I", 4), F("year", "<I", 4), F("month", "<I", 4),
     F("day", "<I", 4), F("hour", "<I", 4), F("minute", "<I", 4), F("second", "<I", 4),
     F("hSecond", "<I", 4) >>

RECURSIVE SumSizes(_)
SumSizes(fields) ==
  IF fields = <<>> THEN 0 ELSE Head(fields).size + SumSizes(Tail(fields))

NoHeader == [x \in {} |-> <<>>]

\* the four read_header_field calls of one extension record
RECORD_FIELDS ==
  << F("recordId", "<I", 4), F("recordSize", "<I", 4),
     F("headerVersion", "<I", 4), F("recordVersion", "<I", 4) >>

\* the version-gated fields of read_sdf_header
TVG_FIELDS == << F("tvgPage", "<I", 4), F("headerSize", "<I", 4) >>
EXTENSION_FIELDS == << F("sdfExtensionSize", "<I", 4) >>

\* for each list of fields read back to back, the offset of field i from the
\* first: sum(f.size for f in fields[:i-1])
Offsets ==
  [fields \in {HEADER_FIELDS, LENIENT_HEADER_FIELDS, RECORD_FIELDS, <<>>,
               TVG_FIELDS, TVG_FIELDS \o EXTENSION_FIELDS} |->
     [i \in 1..(Len(fields) + 1) |-> SumSizes(SubSeq(fields, 1, i - 1))]]

Offset(fields, i) == Offsets[fields][i]

(* The loop `for field in fields: header[field.name] = read_header_field(file, field)`
   from cursor p into header h.  Field i is the f.size bytes at
   p + Offset(fields, i); the first field the file is too short for stops the
   loop: its read consumes what is left and it is the field the error names. *)
ReadFields(fields, p, h) ==
  CHOOSE res \in
    { [ok |-> n = Len(fields),
       header |-> h @@ [name \in {fields[i].name : i \in 1..n} |->
                          LET i == CHOOSE i \in 1..n : fields[i].name = name
                          IN Read(p + Offset(fields, i), fields[i].size)],
       pos |-> IF n = Len(fields) THEN p + Offset(fields, n + 1)
               ELSE After(p + Offset(fields, n + 1), fields[n + 1].size),
       failed |-> IF n = Len(fields) THEN "" ELSE fields[n + 1].name] :
      n \in { Cardinality({i \in 1..Len(fields) :
                p + Offset(fields, i) + fields[i].size <= Len(stream)}) } } : TRUE

\* mutant: sdfExtensionSize read only above 3001
GatedFields_StrictlyAbove3001(pv) ==
  (IF pv >= 3000 THEN TVG_FIELDS ELSE <<>>) \o (IF pv > 3001 THEN EXTENSION_FIELDS ELSE <<>>)

\* the version-gated reads of read_sdf_header
GatedFields(pv) ==
  (IF pv >= 3000 THEN TVG_FIELDS ELSE <<>>) \o (IF pv >= 3001 THEN EXTENSION_FIELDS ELSE <<>>)

----------------------------------------------------------------------------
(* Strict decoder: channel data *)

C(b, l, t) == [bit |-> b, label |-> l, type |-> t]

\* f"beam_{beam+1}" for beam in range(10)
BeamLabel ==
  << "beam_1", "beam_2", "beam_3", "beam_4", "beam_5",
     "beam_6", "beam_7", "beam_8", "beam_9", "beam_10" >>

\* mutant: the sub-bottom profiler tested with mask 0x20, nine beams
ChannelTable_WrongMasks(pv) ==
  IF pv \in {3000, 3001}
  THEN << C(0, "lf_port", "H"), C(1, "lf_starboard", "H"), C(2, "hf_port", "H"),
          C(3, "hf_starboard", "H"), C(5, "sbp", "i") >>
  ELSE IF pv \in {5000, 5001}
  THEN [beam \in 1..9 |-> C(beam - 1, BeamLabel[beam], "H")]
  ELSE <<>>

\* the `if config & mask` tests of read_channel_data, in the order they run
ChannelTable(pv) ==
  IF pv \in {3000, 3001}
  THEN << C(0, "lf_port", "H"), C(1, "lf_starboard", "H"), C(2, "hf_port", "H"),
          C(3, "hf_starboard", "H"), C(4, "sbp", "i") >>
  ELSE IF pv \in {5000, 5001}
  THEN [beam \in 1..10 |-> C(beam - 1, BeamLabel[beam], "H")]
  ELSE <<>>

\* struct.calcsize(data_type)
CalcSize(t) == IF t = "H" THEN 2 ELSE 4

\* struct.unpack(f"<{num_samples}{data_type}", data)
Unpack(t, data) ==
  [k \in 1..(Len(data) \div CalcSize(t)) |->
     LET b == SubSeq(data, (k - 1) * CalcSize(t) + 1, k * CalcSize(t))
     IN IF t = "H" THEN U16(b) ELSE IF t = "i" THEN I32(b) ELSE Val(b)]

(* _read_channel_samples at cursor p.  A short read of the 2-byte count makes
   struct.unpack raise struct.error; a short read of the samples raises EOFError,
   whose message holds the two byte counts and no name. *)
ReadChannelSamples(p, t) ==
  LET head == Read(p, 2)
      num_samples == U16(head)
      expected_read_length == CalcSize(t) * num_samples
      data == Read(p + 2, expected_read_length)
  IN IF Len(head) # 2
     THEN [ok |-> FALSE, what |-> "struct.error", pos |-> After(p, 2),
           count |-> 0, samples |-> <<>>]
     ELSE IF Len(data) # expected_read_length
     THEN [ok |-> FALSE, what |-> "EOFError", pos |-> After(p + 2, expected_read_length),
           count |-> num_samples, samples |-> <<>>]
     ELSE [ok |-> TRUE, what |-> "", pos |-> p + 2 + expected_read_length,
           count |-> num_samples, samples |-> Unpack(t, data)]

\* read_channel_data: the tests of `table` from the i-th on, from cursor p
RECURSIVE ReadChannels(_, _, _, _, _)
ReadChannels(table, i, p, config, channels) ==
  IF i > Len(table)
  THEN [ok |-> TRUE, what |-> "", chan |-> "", pos |-> p, channels |-> channels]
  ELSE IF ~Bit(config, table[i].bit)
  THEN ReadChannels(table, i + 1, p, config, channels)
  ELSE CHOOSE res \in
         { IF ~r.ok
           THEN [ok |-> FALSE, what |-> r.what, chan |-> table[i].label, pos |-> r.pos,
                 channels |-> channels]
           ELSE ReadChannels(table, i + 1, r.pos, config,
                  Append(channels, [label |-> table[i].label, count |-> r.count,
                                    samples |-> r.samples])) :
           r \in {ReadChannelSamples(p, table[i].type)} } : TRUE

\* ping["header"].get("sdfExtensionSize", 0)
ExtensionSize(header) ==
  IF "sdfExtensionSize" \in DOMAIN header THEN Val(header["sdfExtensionSize"]) ELSE 0

\* mutant: >= 0 in place of > 0
HasExtension_NonNegative(header) == ExtensionSize(header) >= 0

\* the test `ping["header"].get("sdfExtensionSize", 0) > 0` of read_file
HasExtension(header) == ExtensionSize(header) > 0

----------------------------------------------------------------------------
(* Strict decoder: extension records *)

(* _read_record_data at cursor p.  Record id 1 reads two floats whatever `size`
   is; any other id reads file.read(size): the rest of the file for size = -1,
   ValueError for size < -1, and fewer bytes than asked, silently, at the end. *)
ReadRecordData(p, record_id, size) ==
  IF record_id = SHIP_CONFIG
  THEN LET a == Read(p, 4)
           b == Read(p + 4, 4)
       IN IF Len(a) # 4 THEN [ok |-> FALSE, what |-> "struct.error", pos |-> After(p, 4),
                              data |-> <<>>, kind |-> "ship"]
          ELSE IF Len(b) # 4 THEN [ok |-> FALSE, what |-> "struct.error", pos |-> After(p + 4, 4),
                              data |-> <<>>, kind |-> "ship"]
          ELSE [ok |-> TRUE, what |-> "", pos |-> p + 8, data |-> a \o b, kind |-> "ship"]
  ELSE IF size < -1
  THEN [ok |-> FALSE, what |-> "ValueError", pos |-> p, data |-> <<>>, kind |-> "raw"]
  ELSE IF size = -1
  THEN [ok |-> TRUE, what |-> "", pos |-> Len(stream),
        data |-> SubSeq(stream, p + 1, Len(stream)), kind |-> "raw"]
  ELSE [ok |-> TRUE, what |-> "", pos |-> After(p, size), data |-> Read(p, size),
        kind |-> "raw"]

\* bytes_read += record["recordSize"]
AddBytesRead(n, recordSize) == n + recordSize

----------------------------------------------------------------------------
(* Lenient decoder *)

LENIENT_CHANNELS == << "portHf", "stbdHf" >>

\* read_channel_data(file, num_samples): the channels of `names` that remain
RECURSIVE LenientReadChannels(_, _, _, _)
LenientReadChannels(names, p, num_samples, channels) ==
  IF names = <<>> THEN [ok |-> TRUE, pos |-> p, channels |-> channels]
  ELSE LET num_bytes == num_samples * 4
           data == Read(p, num_bytes)
       IN IF Len(data) # num_bytes
          THEN [ok |-> FALSE, pos |-> After(p, num_bytes), channels |-> channels]
          ELSE LenientReadChannels(Tail(names), p + num_bytes, num_samples,
                 Append(channels, [label |-> Head(names), count |-> num_samples,
                                   samples |-> Unpack("I", data)]))

\* interpret_tx_waveform
InterpretTxWaveform(w) ==
  [lf_waveform |-> w[1] % 16, hf_waveform |-> w[2] % 16,
   lf_enabled |-> Bit(w, 7), hf_enabled |-> Bit(w, 15)]

\* mutant: >= 3502 in place of == 3502
LenientSupported_AtLeast(header) == Val(header["pageVersion"]) >= 3502

\* the dispatch `ping["header"]["pageVersion"] == 3502` of read_file
LenientSupported(header) == header["pageVersion"] = LE4(3502)

----------------------------------------------------------------------------
(* The files the decoders are run on: segments written to the layout each
   decoder reads, concatenated and cut short at the end *)

RECURSIVE Flatten(_)
Flatten(ss) == IF ss = <<>> THEN <<>> ELSE Head(ss) \o Flatten(Tail(ss))

Fill(n, b) == [i \in 1..n |-> b]

\* the fixed header fields, zero but for the three a decoder branches on
RECURSIVE EncFields(_, _, _, _)
EncFields(fields, pv, config, ns) ==
  IF fields = <<>> THEN <<>>
  ELSE LET f == Head(fields)
       IN (IF f.name = "pageVersion" THEN LE4(pv)
           ELSE IF f.name = "configuration" THEN LE4(config)
           ELSE IF f.name = "numSamples" THEN LE4(ns)
           ELSE IF f.name = "txWaveform" THEN LE4(33667)
           ELSE IF f.name = "pingNumber" THEN LE4(7)
           ELSE Zeros(f.size))
          \o EncFields(Tail(fields), pv, config, ns)

\* one channel array of n samples: count, then samples 10, 20, ... (an "i" array
\* starts with -2)
EncArray(t, n) ==
  LE2(n) \o Flatten([k \in 1..n |->
             IF t = "H" THEN LE2(10 * k)
             ELSE IF k = 1 THEN <<254, 255, 255, 255>> ELSE LE4(10 * k)])

RECURSIVE EncChannels(_, _, _)
EncChannels(table, config, n) ==
  IF table = <<>> THEN <<>>
  ELSE (IF Bit(LE4(config), Head(table).bit) THEN EncArray(Head(table).type, n) ELSE <<>>)
       \o EncChannels(Tail(table), config, n)

\* one extension record: its 16-byte header declaring `size`, then `paylen` bytes
EncRecord(id, size, paylen) == id \o LE4(size) \o LE4(1) \o LE4(2) \o Fill(paylen, 0)

OTHER_ID == <<2, 0, 0, 0>>

\* extension blocks: <<declared sdfExtensionSize, records>>
ExtCases ==
  { << 32, EncRecord(OTHER_ID, 16, 0) \o EncRecord(END_MARKER, 16, 0) >>,
    << 32, EncRecord(OTHER_ID, 32, 16) >>,
    << 40, EncRecord(OTHER_ID, 20, 4) \o EncRecord(OTHER_ID, 20, 4) >>,
    << 48, EncRecord(END_MARKER, 16, 0) \o EncRecord(OTHER_ID, 32, 16) >>,
    << 16, EncRecord(OTHER_ID, 32, 16) >>,
    << 24, EncRecord(SHIP_CONFIG, 24, 8) >>,
    << 32, EncRecord(SHIP_CONFIG, 32, 16) >>,
    << 16, EncRecord(SHIP_CONFIG, 16, 0) >>,
    << 24, EncRecord(SHIP_CONFIG, 0, 8) >>,
    << 16, EncRecord(OTHER_ID, 15, 0) >>,
    << 16, EncRecord(OTHER_ID, 0, 0) >>,
    << 16, <<>> >> }

\* a ping as the strict decoder reads it
StrictPing(pv, config, n, ext) ==
  PING_MARKER \o EncFields(HEADER_FIELDS, pv, config, n)
  \o (IF pv >= 3000 THEN LE4(0) \o LE4(SumSizes(HEADER_FIELDS) + 12) ELSE <<>>)
  \o (IF pv >= 3001 THEN LE4(ext[1]) ELSE <<>>)
  \o EncChannels(ChannelTable(pv), config, n)
  \o ext[2]

NoExt == << 0, <<>> >>

GARBAGE == <<120, 86, 52, 18>>

StrictCases ==
  { <<3000, 0>>, <<3000, 1>>, <<3000, 31>>, <<3000, 33>>, <<3001, 16>>, <<3501, 3>>,
    <<3502, 31>>, <<5000, 513>>, <<5001, 1026>>, <<5002, 1>>, <<5004, 0>>,
    <<1234, 1>>, <<6000, 1>> }

StrictCatalogue ==
  { GARBAGE }
  \cup { StrictPing(c[1], c[2], MaxSamples, NoExt) : c \in StrictCases }
  \cup { StrictPing(3000, 1, n, NoExt) : n \in 0..MaxSamples }
  \cup { StrictPing(3001, 1, 1, e) : e \in ExtCases }

\* segments after which the strict decoder goes on
StrictLead ==
  { GARBAGE,
    StrictPing(3000, 1, MaxSamples, NoExt),
    StrictPing(5000, 513, 1, NoExt),
    StrictPing(3001, 0, 0, << 32, EncRecord(OTHER_ID, 16, 0) \o EncRecord(END_MARKER, 16, 0) >>),
    StrictPing(3001, 0, 0, << 32, EncRecord(SHIP_CONFIG, 32, 16) >>) }

\* a ping as the lenient decoder reads it: `written` samples in each array
LenientPing(pv, config, ns, written) ==
  PING_MARKER \o EncFields(LENIENT_HEADER_FIELDS, pv, config, ns)
  \o Flatten([c \in 1..2 |-> Flatten([k \in 1..written |-> LE4(100 * c + k)])])

LenientCatalogue ==
  { GARBAGE }
  \cup { LenientPing(3502, c, n, n) : c \in {0, 31}, n \in 0..MaxSamples }
  \cup { LenientPing(pv, 1, 1, w) : pv \in {3000, 3501, 5000, 1234}, w \in {0, 1} }
  \cup { LenientPing(3502, 3, MaxSamples + 1, MaxSamples) }

LenientLead ==
  { GARBAGE, LenientPing(3502, 3, MaxSamples, MaxSamples), LenientPing(3000, 1, 1, 1) }

Leads(S) == UNION { [1..k -> S] : k \in 0..(MaxPings - 1) }

Files(m) ==
  LET lead == IF m = "strict" THEN StrictLead ELSE LenientLead
      last == IF m = "strict" THEN StrictCatalogue ELSE LenientCatalogue
  IN { SubSeq(Flatten(l) \o s, 1, Len(Flatten(l) \o s) - k) :
         l \in Leads(lead), s \in last, k \in 0..MaxCut }

----------------------------------------------------------------------------
(* State *)

NoError == [exc |-> "", what |-> "", ref |-> "", chan |-> ""]

\* the exception that leaves read_file: its class, what it reports, the field or
\* record name its message holds (ref) and the channel that was being read (chan)
Raise(exc, what, ref, chan) == [exc |-> exc, what |-> what, ref |-> ref, chan |-> chan]

(* `ping = {}` after a marker read at offset m.  marker, hdrEnd and chanEnd record
   the cursor at the marker, after read_sdf_header and after read_channel_data;
   hasExt is `"extension" in ping`. *)
NewPing(m) ==
  [marker |-> m, header |-> NoHeader, hdrEnd |-> m + 4, channels |-> <<>>,
   chanEnd |-> m + 4, hasExt |-> FALSE, extension |-> <<>>,
   tx_waveform |-> InterpretTxWaveform(Zeros(4))]

Init ==
  /\ mode \in {"strict", "lenient"}
  /\ stream \in Files(mode)
  /\ pos = 0
  /\ pc = "SEEK_MARKER"
  /\ pings = <<>>
  /\ cur = NewPing(-4)
  /\ bytes_read = 0
  /\ err = NoError

----------------------------------------------------------------------------
(* read_file of both decoders: the marker read at the top of the loop *)

\* mutant: the word is looked at without being consumed
SkipWord_Peek(p) == p

\* the cursor after a 4-byte word that is not the marker: the loop `continue`s
SkipWord(p) == p + 4

SeekMarker ==
  /\ pc = "SEEK_MARKER"
  /\ LET marker == Read(pos, 4)
     IN IF Len(marker) # 4
        THEN /\ pc' = "END_OF_STREAM"
             /\ pos' = After(pos, 4)
             /\ cur' = cur
        ELSE IF marker # PING_MARKER
        THEN /\ pc' = "SEEK_MARKER"
             /\ pos' = SkipWord(pos)
             /\ cur' = cur
        ELSE /\ pc' = "DECODE_HEADER"
             /\ pos' = pos + 4
             /\ cur' = NewPing(pos)
  /\ UNCHANGED <<mode, stream, pings, bytes_read, err>>

\* pings.append(ping)
Emit ==
  /\ pc = "EMIT"
  /\ pings' = Append(pings, cur)
  /\ pc' = "SEEK_MARKER"
  /\ UNCHANGED <<mode, stream, pos, cur, bytes_read, err>>

----------------------------------------------------------------------------
(* Strict decoder *)

\* read_sdf_header
StrictDecodeHeader ==
  /\ mode = "strict"
  /\ pc = "DECODE_HEADER"
  /\ \E r \in {ReadFields(HEADER_FIELDS, pos, NoHeader)} :
     \E g \in {IF r.ok /\ ValidPageVersion(r.header["pageVersion"])
               THEN ReadFields(GatedFields(Val(r.header["pageVersion"])), r.pos, r.header)
               ELSE r} :
        IF ~r.ok
        THEN /\ pc' = "ERROR"
             /\ err' = Raise("EOFError", "UnexpectedEOF", r.failed, "")
             /\ pos' = r.pos
             /\ cur' = [cur EXCEPT !.header = r.header, !.hdrEnd = r.pos]
        ELSE IF ~ValidPageVersion(r.header["pageVersion"])
        THEN /\ pc' = "ERROR"
             /\ err' = Raise("ValueError", "InvalidPageVersion", "", "")
             /\ pos' = r.pos
             /\ cur' = [cur EXCEPT !.header = r.header, !.hdrEnd = r.pos]
        ELSE IF ~g.ok
        THEN /\ pc' = "ERROR"
             /\ err' = Raise("EOFError", "UnexpectedEOF", g.failed, "")
             /\ pos' = g.pos
             /\ cur' = [cur EXCEPT !.header = g.header, !.hdrEnd = g.pos]
        ELSE /\ pc' = "DECODE_CHANNELS"
             /\ err' = err
             /\ pos' = g.pos
             /\ cur' = [cur EXCEPT !.header = g.header, !.hdrEnd = g.pos]
  /\ UNCHANGED <<mode, stream, pings, bytes_read>>

\* read_channel_data, then the extension test of read_file
StrictDecodeChannels ==
  /\ mode = "strict"
  /\ pc = "DECODE_CHANNELS"
  /\ \E r \in {ReadChannels(ChannelTable(Val(cur.header["pageVersion"])), 1, pos,
                              cur.header["configuration"], <<>>)} :
        /\ pos' = r.pos
        /\ IF ~r.ok
           THEN /\ pc' = "ERROR"
                /\ err' = IF r.what = "struct.error"
                          THEN Raise("ValueError", "ChannelData", "", r.chan)
                          ELSE Raise("EOFError", "UnexpectedEOF", "", r.chan)
                /\ cur' = [cur EXCEPT !.channels = r.channels, !.chanEnd = r.pos]
           ELSE /\ pc' = IF HasExtension(cur.header) THEN "DECODE_EXTENSION" ELSE "EMIT"
                /\ err' = err
                /\ cur' = [cur EXCEPT !.channels = r.channels, !.chanEnd = r.pos,
                                      !.hasExt = HasExtension(cur.header)]
  /\ bytes_read' = 0
  /\ UNCHANGED <<mode, stream, pings>>

\* read_sdfx_extension: one turn of `while bytes_read < size`
ReadExtensionRecord ==
  /\ mode = "strict"
  /\ pc = "DECODE_EXTENSION"
  /\ bytes_read < ExtensionSize(cur.header)
  /\ \E h \in {ReadFields(RECORD_FIELDS, pos, NoHeader)} :
     \E d \in {IF h.ok
               THEN ReadRecordData(h.pos, h.header["recordId"],
                                   Val(h.header["recordSize"]) - 16)
               ELSE h} :
     LET record == [recordId |-> h.header["recordId"],
                    recordSize |-> Val(h.header["recordSize"]),
                    headerVersion |-> h.header["headerVersion"],
                    recordVersion |-> h.header["recordVersion"],
                    kind |-> d.kind, data |-> d.data, start |-> pos, end |-> d.pos]
     IN IF ~h.ok
        THEN /\ pc' = "ERROR"
             /\ err' = Raise("EOFError", "UnexpectedEOF", h.failed, "")
             /\ pos' = h.pos
             /\ UNCHANGED <<cur, bytes_read>>
        ELSE IF ~d.ok
        THEN /\ pc' = "ERROR"
             /\ err' = IF d.what = "struct.error"
                       THEN Raise("RuntimeError", "StructError", "", "")
                       ELSE Raise("ValueError", "NegativeRead", "", "")
             /\ pos' = d.pos
             /\ UNCHANGED <<cur, bytes_read>>
        ELSE /\ cur' = [cur EXCEPT !.extension = Append(@, record)]
             /\ bytes_read' = AddBytesRead(bytes_read, record.recordSize)
             /\ pos' = d.pos
             /\ pc' = IF record.recordId = END_MARKER THEN "EMIT" ELSE "DECODE_EXTENSION"
             /\ err' = err
  /\ UNCHANGED <<mode, stream, pings>>

\* read_sdfx_extension: the loop test fails and the records are returned
ExtensionReturn ==
  /\ mode = "strict"
  /\ pc = "DECODE_EXTENSION"
  /\ ~(bytes_read < ExtensionSize(cur.header))
  /\ pc' = "EMIT"
  /\ UNCHANGED <<mode, stream, pos, pings, cur, bytes_read, err>>

----------------------------------------------------------------------------
(* Lenient decoder *)

\* read_sdf_header, then the page-version dispatch of read_file
LenientDecodeHeader ==
  /\ mode = "lenient"
  /\ pc = "DECODE_HEADER"
  /\ \E r \in {ReadFields(LENIENT_HEADER_FIELDS, pos, NoHeader)} :
        /\ pos' = r.pos
        /\ cur' = [cur EXCEPT !.header = r.header, !.hdrEnd = r.pos, !.chanEnd = r.pos]
        /\ IF ~r.ok
           THEN /\ pc' = "ERROR"
                /\ err' = Raise("struct.error", "StructError", "", "")
           ELSE /\ pc' = IF LenientSupported(r.header) THEN "DECODE_CHANNELS"
                         ELSE "SEEK_MARKER"
                /\ err' = err
  /\ UNCHANGED <<mode, stream, pings, bytes_read>>

\* read_channel_data and interpret_tx_waveform
LenientDecodeChannels ==
  /\ mode = "lenient"
  /\ pc = "DECODE_CHANNELS"
  /\ \E r \in {LenientReadChannels(LENIENT_CHANNELS, pos,
                                     Val(cur.header["numSamples"]), <<>>)} :
        /\ pos' = r.pos
        /\ IF ~r.ok
           THEN /\ pc' = "ERROR"
                /\ err' = Raise("struct.error", "StructError", "",
                                LENIENT_CHANNELS[Len(r.channels) + 1])
                /\ cur' = [cur EXCEPT !.channels = r.channels, !.chanEnd = r.pos]
           ELSE /\ pc' = "EMIT"
                /\ err' = err
                /\ cur' = [cur EXCEPT !.channels = r.channels, !.chanEnd = r.pos,
                             !.tx_waveform = InterpretTxWaveform(cur.header["txWaveform"])]
  /\ UNCHANGED <<mode, stream, pings, bytes_read>>

----------------------------------------------------------------------------

Next ==
  \/ SeekMarker
  \/ Emit
  \/ StrictDecodeHeader
  \/ StrictDecodeChannels
  \/ ReadExtensionRecord
  \/ ExtensionReturn
  \/ LenientDecodeHeader
  \/ LenientDecodeChannels

Spec == Init /\ [][Next]_vars

\* read_file runs without interruption: a step that can be taken is taken
FairSpec == Spec /\ WF_vars(Next)

----------------------------------------------------------------------------
(* Properties *)

PV(p) == Val(p.header["pageVersion"])

FixedNames == {HEADER_FIELDS[i].name : i \in 1..Len(HEADER_FIELDS)}

GatedNames == {"tvgPage", "headerSize", "sdfExtensionSize"}

IsStrict == mode = "strict"

\* the ping being assembled has its header (strict decoder)
HeaderDone == pc \in {"DECODE_CHANNELS", "DECODE_EXTENSION", "EMIT"}

\* the ping being assembled has its channels
ChannelsDone == pc \in {"DECODE_EXTENSION", "EMIT"}

\* the pings emitted so far, with the one being assembled once P holds of the state
Seen(P) == {pings[i] : i \in 1..Len(pings)} \cup (IF P THEN {cur} ELSE {})

AllRecords == UNION { {p.extension[k] : k \in 1..Len(p.extension)} :
                      p \in Seen(pc \in {"DECODE_EXTENSION", "EMIT", "ERROR"}) }

(* C1: in the strict decoder a header whose pageVersion is outside the
   enumeration fails with the invalid-page-version error right after the fixed
   fields: no version-gated field is read, no ping is emitted for it, and every
   emitted ping has a pageVersion of the enumeration. *)
C1_InvalidVersionRejected ==
  IsStrict =>
    /\ \A i \in 1..Len(pings) : PV(pings[i]) \in PageVersion
    /\ (FixedNames \subseteq DOMAIN cur.header /\ PV(cur) \notin PageVersion) =>
         /\ pc = "ERROR"
         /\ err.what = "InvalidPageVersion"
         /\ pos = cur.marker + 4 + SumSizes(HEADER_FIELDS)
         /\ GatedNames \cap DOMAIN cur.header = {}
         /\ \A i \in 1..Len(pings) : pings[i].marker # cur.marker

C1_Witness ==
  /\ IsStrict
  /\ pc = "ERROR"
  /\ err.what = "InvalidPageVersion"
  /\ Len(pings) >= 1
  /\ PV(cur) \notin PageVersion

\* 1 if b, else 0
Ind(b) == IF b THEN 1 ELSE 0

HeaderBytes(p) == p.hdrEnd - (p.marker + 4)

(* C2 as claimed: read_sdf_header advances the cursor by 156 + 8*[v>=3000] +
   4*[v>=3001] bytes, the fixed part being 39 fields of 156 bytes. *)
C2_Claimed ==
  IsStrict =>
    \A p \in Seen(HeaderDone) :
      /\ HeaderBytes(p) = 156 + 8 * Ind(PV(p) >= 3000) + 4 * Ind(PV(p) >= 3001)
      /\ Len(HEADER_FIELDS) = 39
      /\ SumSizes(HEADER_FIELDS) = 156

(* C2 as amended: read_sdf_header advances the cursor by 176 + 8*[v>=3000] +
   4*[v>=3001] bytes, the fixed part being 40 fields of 176 bytes. *)
C2_HeaderLength ==
  IsStrict =>
    \A p \in Seen(HeaderDone) :
      /\ HeaderBytes(p) = 176 + 8 * Ind(PV(p) >= 3000) + 4 * Ind(PV(p) >= 3001)
      /\ Len(HEADER_FIELDS) = 40
      /\ SumSizes(HEADER_FIELDS) = 176

C2_Witness ==
  /\ IsStrict
  /\ Len(pings) = 2
  /\ PV(pings[1]) = 3001
  /\ PV(pings[2]) = 3000
  /\ HeaderBytes(pings[1]) = 188
  /\ HeaderBytes(pings[2]) = 184

Names3000 == << "lf_port", "lf_starboard", "hf_port", "hf_starboard", "sbp" >>

Names5000 == [i \in 1..10 |-> BeamLabel[i]]

\* the names whose bit (name i: bit i - 1) is set in the number n, from name i on
RECURSIVE Pick(_, _, _)
Pick(names, n, i) ==
  IF i > Len(names) THEN <<>>
  ELSE (IF (n \div Pow2(i - 1)) % 2 = 1 THEN << names[i] >> ELSE <<>>)
       \o Pick(names, n, i + 1)

Labels(p) == [i \in 1..Len(p.channels) |-> p.channels[i].label]

(* C3: read_channel_data returns exactly the labels whose bit is set in
   configuration under the page version's table, in ascending bit order: five
   names on bits 0-4 for 3000 and 3001, beam_1..beam_10 on bits 0-9 for 5000 and
   5001, and for any other version nothing, with no byte consumed. *)
C3_ChannelLabels ==
  IsStrict =>
    \A p \in Seen(ChannelsDone) :
      LET config == Val(p.header["configuration"])
      IN /\ PV(p) \in {3000, 3001} => Labels(p) = Pick(Names3000, config, 1)
         /\ PV(p) \in {5000, 5001} => Labels(p) = Pick(Names5000, config, 1)
         /\ PV(p) \notin {3000, 3001, 5000, 5001} =>
              Labels(p) = <<>> /\ p.chanEnd = p.hdrEnd
         /\ (PV(p) = 3000 /\ config = 31) => Labels(p) = Names3000
         /\ config = 0 => Labels(p) = <<>> /\ p.chanEnd = p.hdrEnd

C3_Witness ==
  /\ IsStrict
  /\ \E i \in 1..Len(pings) :
       /\ PV(pings[i]) = 3000
       /\ Val(pings[i].header["configuration"]) = 31
       /\ Labels(pings[i]) = Names3000
  /\ \E i \in 1..Len(pings) :
       /\ PV(pings[i]) = 5000
       /\ Labels(pings[i]) = << "beam_1", "beam_10" >>

(* C4 as claimed: read_sdfx_extension never accepts a record that declares
   recordSize < 16. *)
C4_Claimed ==
  IsStrict => \A r \in AllRecords : r.recordSize >= 16

(* C5 as claimed: every record read has a payload of recordSize - 16 bytes and
   moves the cursor by recordSize bytes, whatever its recordId (stated for the
   records that declare at least their 16 header bytes). *)
C5_Claimed ==
  IsStrict =>
    \A r \in AllRecords :
      r.recordSize >= 16 =>
        /\ Len(r.data) = r.recordSize - 16
        /\ r.end - r.start = r.recordSize

RECURSIVE SumRecordSizes(_)
SumRecordSizes(rs) ==
  IF rs = <<>> THEN 0 ELSE Head(rs).recordSize + SumRecordSizes(Tail(rs))

(* C6 as claimed: a record is read only while the sizes of the records before it
   sum to less than byteBudget, a record with id 0xEEEEEEEE is the last one, and
   the bytes consumed never exceed byteBudget. *)
C6_Claimed ==
  IsStrict =>
    \A p \in Seen(pc \in {"DECODE_EXTENSION", "EMIT"}) :
      p.hasExt =>
        LET n == Len(p.extension)
            end == IF n = 0 THEN p.chanEnd ELSE p.extension[n].end
        IN /\ n > 0 => SumRecordSizes(SubSeq(p.extension, 1, n - 1)) < ExtensionSize(p.header)
           /\ \A k \in 1..(n - 1) : p.extension[k].recordId # END_MARKER
           /\ end - p.chanEnd <= ExtensionSize(p.header)

(* C7 as claimed: a file that ends inside a channel's samples fails with an
   unexpected-end-of-stream error that names the channel being read, and no
   channel holds fewer samples than its count. *)
C7_Claimed ==
  /\ (pc = "ERROR" /\ err.chan # "" /\ err.what # "ChannelData") =>
       /\ err.what = "UnexpectedEOF"
       /\ err.ref = err.chan
  /\ \A p \in Seen(TRUE) :
       \A k \in 1..Len(p.channels) : Len(p.channels[k].samples) = p.channels[k].count

C8_Pings ==
  \A i \in 1..Len(pings) :
    LET p == pings[i]
    IN /\ Read(p.marker, 4) = PING_MARKER
       /\ i > 1 => pings[i - 1].marker < p.marker /\ pings[i - 1].chanEnd <= p.marker
       /\ p.hasExt <=> ("sdfExtensionSize" \in DOMAIN p.header
                         /\ Val(p.header["sdfExtensionSize"]) > 0)
       /\ ~p.hasExt => p.extension = <<>>
       /\ PV(p) = 3000 => ~p.hasExt

C8_Step ==
  /\ pc = "SEEK_MARKER" => pc' \in {"SEEK_MARKER", "DECODE_HEADER", "END_OF_STREAM"}
  /\ pc' = "DECODE_HEADER" =>
       pc = "SEEK_MARKER" /\ Read(pos, 4) = PING_MARKER /\ cur'.marker = pos
  /\ pc = "DECODE_HEADER" => pc' \in {"DECODE_CHANNELS", "ERROR"}
  /\ pc = "DECODE_CHANNELS" =>
       /\ pc' \in {"DECODE_EXTENSION", "EMIT", "ERROR"}
       /\ pc' = "DECODE_EXTENSION" =>
            "sdfExtensionSize" \in DOMAIN cur.header /\ Val(cur.header["sdfExtensionSize"]) > 0
       /\ pc' = "EMIT" =>
            ~("sdfExtensionSize" \in DOMAIN cur.header /\ Val(cur.header["sdfExtensionSize"]) > 0)
  /\ pc = "DECODE_EXTENSION" => pc' \in {"DECODE_EXTENSION", "EMIT", "ERROR"}
  /\ pc = "EMIT" => pc' = "SEEK_MARKER" /\ pings' = Append(pings, cur)
  /\ pc # "EMIT" => pings' = pings

(* C8: in the strict decoder a ping is emitted only through SEEK_MARKER (a word
   equal to 0xFFFFFFFF), DECODE_HEADER, DECODE_CHANNELS, DECODE_EXTENSION exactly
   when the header holds sdfExtensionSize > 0, then EMIT; pings are appended in
   stream order, each after a marker of its own. *)
C8_PhaseOrder == [](IsStrict => C8_Pings) /\ [][IsStrict => C8_Step]_vars

C8_Witness ==
  /\ IsStrict
  /\ Len(pings) = 2
  /\ pings[1].hasExt
  /\ Len(pings[1].extension) = 2
  /\ PV(pings[2]) = 3000
  /\ ~pings[2].hasExt

Terminated == pc \in {"END_OF_STREAM", "ERROR"}

\* what the steps of both decoders do to the cursor, but for the channel reads
C9_Common ==
  /\ pos' >= pos
  /\ (pc = "SEEK_MARKER" /\ Len(Read(pos, 4)) = 4 /\ Read(pos, 4) # PING_MARKER) =>
       pc' = "SEEK_MARKER" /\ pos' = pos + 4
  /\ pc = "SEEK_MARKER" => pos' = Min(pos + 4, Len(stream))
  /\ pc' = "END_OF_STREAM" <=> (pc = "SEEK_MARKER" /\ Len(Read(pos, 4)) < 4)
  /\ (pc = "DECODE_HEADER" /\ pc' # "ERROR") => pos' > pos
  /\ (pc = "DECODE_EXTENSION" /\ cur'.extension # cur.extension) => pos' >= pos + 16

(* C9 as claimed: both decoders terminate, a word that is not the marker is
   skipped by exactly 4 bytes without ending the decode, every header, channel
   and extension record read moves the cursor forward or raises, and
   END_OF_STREAM is reached exactly when a marker read returns fewer than 4
   bytes. *)
C9_Claimed ==
  /\ <>Terminated
  /\ [][/\ C9_Common
        /\ (pc = "DECODE_CHANNELS" /\ pc' # "ERROR" /\ Len(cur'.channels) > 0) =>
             pos' > pos]_vars

(* C9 as amended: as claimed, but a channel read moves the cursor forward only
   in the strict decoder (by at least the 2 bytes of its count); in the lenient
   decoder the two channel reads consume 8 * numSamples bytes, nothing when
   numSamples is 0. *)
C9_Terminates ==
  /\ <>Terminated
  /\ [][/\ C9_Common
        /\ (IsStrict /\ pc = "DECODE_CHANNELS" /\ pc' # "ERROR") =>
             pos' >= pos + 2 * Len(cur'.channels)
        /\ (~IsStrict /\ pc = "DECODE_CHANNELS" /\ pc' # "ERROR") =>
             pos' = pos + 8 * Val(cur.header["numSamples"])]_vars

C9_Witness ==
  /\ mode = "lenient"
  /\ pc = "END_OF_STREAM"
  /\ stream[1] # 255
  /\ Len(pings) = 1
  /\ pings[1].marker = 4
  /\ Val(pings[1].header["numSamples"]) = 0
  /\ pings[1].chanEnd = pings[1].hdrEnd

C10_Pings ==
  \A i \in 1..Len(pings) :
    LET p == pings[i]
    IN /\ PV(p) = 3502
       /\ Labels(p) = << "portHf", "stbdHf" >>
       /\ \A k \in 1..2 : Len(p.channels[k].samples) = Val(p.header["numSamples"])
       /\ p.chanEnd - p.hdrEnd = 8 * Val(p.header["numSamples"])

C10_Step ==
  (pc = "DECODE_HEADER" /\ pc' # "ERROR" /\ PV(cur') # 3502) =>
    /\ pc' = "SEEK_MARKER"
    /\ pos' = pos + SumSizes(LENIENT_HEADER_FIELDS)
    /\ pings' = pings

(* C10: in the lenient decoder a ping whose pageVersion is not 3502 is skipped:
   nothing is emitted or raised, no channel byte is read and the decode goes on
   in SEEK_MARKER right after the header; every emitted ping has pageVersion 3502
   and two channels of numSamples 32-bit samples each, whatever configuration
   holds. *)
C10_LenientSkip ==
  [](mode = "lenient" => C10_Pings) /\ [][mode = "lenient" => C10_Step]_vars

C10_Witness ==
  /\ mode = "lenient"
  /\ pc = "SEEK_MARKER"
  /\ Len(pings) = 1
  /\ Val(pings[1].header["configuration"]) = 3
  /\ PV(cur) = 3000
  /\ pos = cur.hdrEnd

====
